---- MODULE Spec2Model ----
(***************************************************************************)
(* Relay engine of sales-bot/bot.py: the two correlation tables, the four  *)
(* handlers behind the aiogram dispatcher, and the daily job.              *)
(*                                                                         *)
(* Every handler touches a correlation table at most once and never        *)
(* awaits between the return of a send and the store write that follows    *)
(* it, so a handler run is one action: the outcome of each outbound call   *)
(* it makes (delivered, or a transport error raised at the await) is drawn *)
(* from a "fate", a tuple of booleans consumed in call order.              *)
(***************************************************************************)
EXTENDS Integers, Sequences, FiniteSets, TLC

(* ------------------------------ bounds --------------------------------- *)

\* Message ids the transport hands out in the operator chat: 1..MaxMsgId.
MaxMsgId == 3

\* Longest suffix after "reply_" of a callback payload not made by the bot.
MaxSuffix == 2

\* bot.py:36, ADMIN_CHAT_ID_INT = int(os.getenv('ADMIN_CHAT_ID')).
ADMIN_CHAT_ID_INT == 10

\* Private chats of end users (chat id = user id).
Users == {1, 2}

(* ------------------------- strings and integers ------------------------ *)

Digits == <<"0", "1", "2", "3", "4", "5", "6", "7", "8", "9">>

IsDigit(c) == \E i \in 1..10 : Digits[i] = c

DigitVal(c) == (CHOOSE i \in 1..10 : Digits[i] = c) - 1

\* str(n) as used by the f-string of create_reply_button.
RECURSIVE ToStr(_)
ToStr(n) ==
    IF n < 0 THEN <<"-">> \o ToStr(0 - n)
    ELSE IF n < 10 THEN <<Digits[n + 1]>>
    ELSE ToStr(n \div 10) \o <<Digits[(n % 10) + 1]>>

\* s.split("_"): the fields between the separators, empty fields kept.
RECURSIVE Split(_)
Split(s) ==
    IF \A i \in 1..Len(s) : s[i] # "_" THEN <<s>>
    ELSE LET k == CHOOSE i \in 1..Len(s) :
                      s[i] = "_" /\ \A j \in 1..(i - 1) : s[j] # "_"
         IN  <<SubSeq(s, 1, k - 1)>> \o Split(SubSeq(s, k + 1, Len(s)))

\* The digits of a field after its optional sign.
Unsigned(f) == IF Len(f) > 0 /\ f[1] \in {"+", "-"} THEN Tail(f) ELSE f

\* int(f) succeeds: an optional sign and at least one digit (the whitespace
\* and digit-group underscores int() also accepts cannot occur in a field
\* of the alphabet used here).
IsInt(f) == Len(Unsigned(f)) > 0 /\ \A i \in 1..Len(Unsigned(f)) : IsDigit(Unsigned(f)[i])

RECURSIVE NatOf(_)
NatOf(d) == IF Len(d) = 0 THEN 0
            ELSE 10 * NatOf(SubSeq(d, 1, Len(d) - 1)) + DigitVal(d[Len(d)])

IntOf(f) == IF Len(f) > 0 /\ f[1] = "-" THEN 0 - NatOf(Unsigned(f)) ELSE NatOf(Unsigned(f))

\* The literal "reply_" of the button payload and of the callback filter.
ReplyPrefix == <<"r", "e", "p", "l", "y", "_">>

StartsWith(s, p) == Len(s) >= Len(p) /\ SubSeq(s, 1, Len(p)) = p

\* create_reply_button(user_id): callback_data of the one "Reply" button.
create_reply_button(user_id) == ReplyPrefix \o ToStr(user_id)

NoMarkup == <<>>

(* ------------------------------ messages ------------------------------- *)

\* Python's `a or b` on strings: None and "" are both falsy, so an absent
\* text or caption is the empty string.
Or(a, b) == IF a # "" THEN a ELSE b

\* What the bot writes. A fixed text is its label; the operator notices
\* carry the user's text and id; a relayed reply is the operator's own text.
Txt(label, body, user) == [label |-> label, body |-> body, user |-> user]

WELCOME == Txt("welcome", "", 0)
PROMPT == Txt("reply_prompt", "", 0)
PRESS_OK == Txt("now_reply_above", "", 0)
PRESS_ERR == Txt("press_error", "", 0)
REPLY_SENT == Txt("reply_sent", "", 0)
REPLY_FAILED == Txt("reply_failed", "", 0)
RECEIVED == Txt("received", "", 0)
RETRY_LATER == Txt("retry_later", "", 0)
MEDIA_PLACEHOLDER == "[media]"

StartNotice(user_id) == Txt("user_pressed_start", "", user_id)
UserNotice(text, user_id) == Txt("message_from_user", text, user_id)
Verbatim(text) == Txt("", text, 0)
Motivation(phrase) == Txt("motivation_of_the_day", phrase, 0)

\* bot.py:59-80: the twenty phrases, each named by its place in the list.
MOTIVATIONAL_PHRASES ==
    <<"phrase1", "phrase2", "phrase3", "phrase4", "phrase5", "phrase6", "phrase7",
      "phrase8", "phrase9", "phrase10", "phrase11", "phrase12", "phrase13", "phrase14",
      "phrase15", "phrase16", "phrase17", "phrase18", "phrase19", "phrase20">>

\* One outbound call and what the transport did with it. A delivered message
\* in the operator chat gets the chat's next message id; ids of messages in
\* other chats are never stored and are recorded as 0.
Call(api, chat_id, content, file, markup, show_alert, ok, next) ==
    [api |-> api, chat_id |-> chat_id, content |-> content, file |-> file,
     markup |-> markup, show_alert |-> show_alert, ok |-> ok,
     message_id |-> IF ok /\ chat_id = ADMIN_CHAT_ID_INT /\ api # "answer_callback_query"
                    THEN next ELSE 0]

Send(api, chat_id, content, file, markup, ok, next) ==
    Call(api, chat_id, content, file, markup, FALSE, ok, next)

\* message.answer(text): a text message into the chat the message came from.
Answer(m, content, ok, next) ==
    Send("send_message", m.chat, content, "", NoMarkup, ok, next)

\* callback.answer(text, show_alert): the transient acknowledgment.
CallbackAnswer(content, show_alert, ok) ==
    Call("answer_callback_query", 0, content, "", NoMarkup, show_alert, ok, 0)

After(call, next) == IF call.message_id # 0 THEN next + 1 ELSE next

\* Put gone wrong: the store rewrites every entry to the new user.
PutClobbering(d, k, v) == [x \in (DOMAIN d) \cup {k} |-> v]

\* Put gone wrong: key and value change places.
PutSwapped(d, k, v) == [x \in (DOMAIN d) \cup {v} |-> IF x = v THEN k ELSE d[x]]

\* Put gone wrong: the store is bounded and keeps the two newest keys only.
PutEvicting(d, k, v) ==
    LET keys == (DOMAIN d) \cup {k}
        kept == {x \in keys : Cardinality({y \in keys : y > x}) < 2}
    IN  [x \in kept |-> IF x = k THEN v ELSE d[x]]

\* d[k] = v on a dict.
Put(d, k, v) == [x \in (DOMAIN d) \cup {k} |-> IF x = k THEN v ELSE d[x]]

\* Get gone wrong: a hit yields the entry stored last, whatever the key.
GetLatest(d, k) ==
    IF k \in DOMAIN d
    THEN {d[CHOOSE x \in DOMAIN d : \A y \in DOMAIN d : y <= x]}
    ELSE {}

\* Get gone wrong: a miss yields a default user instead of None.
GetOrDefault(d, k) == IF k \in DOMAIN d THEN {d[k]} ELSE {1}

\* d.get(k): {} for None, else the singleton of the value.
Get(d, k) == IF k \in DOMAIN d THEN {d[k]} ELSE {}

\* What one handler run did: the outbound calls in order, the two tables
\* and the operator chat's id counter afterwards, whether an exception left
\* the handler, whether logger.error was called.
Result(calls, umap, rmap, next, raised, logged) ==
    [calls |-> calls, umap |-> umap, rmap |-> rmap, next |-> next,
     raised |-> raised, logged |-> logged]

(* ------------------------------ handlers ------------------------------- *)
\* Each handler takes the event, the fate f of its outbound calls (f[k] is
\* TRUE when the k-th call it makes is delivered), the two tables and the
\* operator chat's next message id.

\* cmd_start gone wrong: the welcome is sent inside the try block, after
\* the operator notice.
cmd_start_welcome_last(m, f, umap, rmap, next) ==
    LET user_id == m.from_user
        sent_message == Send("send_message", ADMIN_CHAT_ID_INT, StartNotice(user_id), "",
                             create_reply_button(user_id), f[1], next)
        n1      == After(sent_message, next)
        welcome == Answer(m, WELCOME, f[2], n1)
    IN  IF ~sent_message.ok
        THEN Result(<<sent_message>>, umap, rmap, next, FALSE, TRUE)
        ELSE Result(<<sent_message, welcome>>,
                    Put(umap, sent_message.message_id, user_id), rmap,
                    After(welcome, n1), FALSE, ~welcome.ok)

\* bot.py:83-125.
cmd_start(m, f, umap, rmap, next) ==
    LET welcome == Answer(m, WELCOME, f[1], next)
        n1      == After(welcome, next)
        user_id == m.from_user
        sent_message == Send("send_message", ADMIN_CHAT_ID_INT, StartNotice(user_id), "",
                             create_reply_button(user_id), f[2], n1)
    IN  IF ~welcome.ok
        THEN Result(<<welcome>>, umap, rmap, next, TRUE, FALSE)
        ELSE IF sent_message.ok
        THEN Result(<<welcome, sent_message>>,
                    Put(umap, sent_message.message_id, user_id), rmap,
                    After(sent_message, n1), FALSE, FALSE)
        ELSE Result(<<welcome, sent_message>>, umap, rmap, n1, FALSE, TRUE)

\* handle_reply_button gone wrong: the entry is stored under the id of the
\* message that carries the pressed button instead of the prompt's id.
handle_reply_button_keys_pressed(callback, f, umap, rmap, next) ==
    LET fields  == Split(callback.data)
        parses  == Len(fields) >= 2 /\ IsInt(fields[2])
        user_id == IntOf(fields[2])
        reply_message == Send("send_message", ADMIN_CHAT_ID_INT, PROMPT, "", NoMarkup,
                              f[1], next)
        stored  == Put(rmap, callback.message, user_id)
        alert(k) == CallbackAnswer(PRESS_ERR, TRUE, f[k])
        ack     == CallbackAnswer(PRESS_OK, FALSE, f[2])
    IN  IF ~parses
        THEN Result(<<alert(1)>>, umap, rmap, next, ~alert(1).ok, TRUE)
        ELSE IF ~reply_message.ok
        THEN Result(<<reply_message, alert(2)>>, umap, rmap, next, ~alert(2).ok, TRUE)
        ELSE IF ack.ok
        THEN Result(<<reply_message, ack>>, umap, stored, next + 1, FALSE, FALSE)
        ELSE Result(<<reply_message, ack, alert(3)>>, umap, stored, next + 1,
                    ~alert(3).ok, TRUE)

\* bot.py:128-149.
handle_reply_button(callback, f, umap, rmap, next) ==
    LET fields  == Split(callback.data)
        parses  == Len(fields) >= 2 /\ IsInt(fields[2])
        user_id == IntOf(fields[2])
        reply_message == Send("send_message", ADMIN_CHAT_ID_INT, PROMPT, "", NoMarkup,
                              f[1], next)
        stored  == Put(rmap, reply_message.message_id, user_id)
        alert(k) == CallbackAnswer(PRESS_ERR, TRUE, f[k])
        ack     == CallbackAnswer(PRESS_OK, FALSE, f[2])
    IN  IF ~parses
        THEN Result(<<alert(1)>>, umap, rmap, next, ~alert(1).ok, TRUE)
        ELSE IF ~reply_message.ok
        THEN Result(<<reply_message, alert(2)>>, umap, rmap, next, ~alert(2).ok, TRUE)
        ELSE IF ack.ok
        THEN Result(<<reply_message, ack>>, umap, stored, next + 1, FALSE, FALSE)
        ELSE Result(<<reply_message, ack, alert(3)>>, umap, stored, next + 1,
                    ~alert(3).ok, TRUE)

\* Outbound gone wrong: video is looked for before photo.
OutboundVideoFirst(m, chat_id, content, markup, ok, next) ==
    IF m.video # ""
    THEN Send("send_video", chat_id, content, m.video, markup, ok, next)
    ELSE IF m.photo # <<>>
    THEN Send("send_photo", chat_id, content, m.photo[Len(m.photo)], markup, ok, next)
    ELSE IF m.document # ""
    THEN Send("send_document", chat_id, content, m.document, markup, ok, next)
    ELSE Send("send_message", chat_id, content, "", markup, ok, next)

\* bot.py:166-191: the one content call of handle_admin_reply and
\* bot.py:229-263: the one forward of handle_message. The primitive is the
\* first of photo, video, document that the message carries, else text; a
\* photo goes out as its last size.
Outbound(m, chat_id, content, markup, ok, next) ==
    IF m.photo # <<>>
    THEN Send("send_photo", chat_id, content, m.photo[Len(m.photo)], markup, ok, next)
    ELSE IF m.video # ""
    THEN Send("send_video", chat_id, content, m.video, markup, ok, next)
    ELSE IF m.document # ""
    THEN Send("send_document", chat_id, content, m.document, markup, ok, next)
    ELSE Send("send_message", chat_id, content, "", markup, ok, next)

\* handle_admin_reply gone wrong: the failure notice goes to the user the
\* reply was meant for instead of the operator.
handle_admin_reply_tells_user(message, f, umap, rmap, next) ==
    LET found      == Get(rmap, message.reply_to)
        user_id    == CHOOSE u \in found : TRUE
        reply_text == Or(message.text, Or(message.caption, MEDIA_PLACEHOLDER))
        relayed    == Outbound(message, user_id, Verbatim(reply_text), NoMarkup, f[1], next)
        n1         == After(relayed, next)
        done       == Answer(message, REPLY_SENT, f[2], n1)
        failed(k, n) == Send("send_message", user_id, REPLY_FAILED, "", NoMarkup, f[k], n)
    IN  IF found = {} \/ found = {0}
        THEN Result(<<>>, umap, rmap, next, FALSE, FALSE)
        ELSE IF ~relayed.ok
        THEN Result(<<relayed, failed(2, next)>>, umap, rmap,
                    After(failed(2, next), next), ~failed(2, next).ok, TRUE)
        ELSE IF done.ok
        THEN Result(<<relayed, done>>, umap, rmap, After(done, n1), FALSE, FALSE)
        ELSE Result(<<relayed, done, failed(3, n1)>>, umap, rmap,
                    After(failed(3, n1), n1), ~failed(3, n1).ok, TRUE)

\* handle_admin_reply gone wrong: the entry is taken out of the table
\* when it is used.
handle_admin_reply_pops(message, f, umap, rmap, next) ==
    LET found      == Get(rmap, message.reply_to)
        user_id    == CHOOSE u \in found : TRUE
        popped     == [k \in (DOMAIN rmap) \ {message.reply_to} |-> rmap[k]]
        reply_text == Or(message.text, Or(message.caption, MEDIA_PLACEHOLDER))
        relayed    == Outbound(message, user_id, Verbatim(reply_text), NoMarkup, f[1], next)
        n1         == After(relayed, next)
        done       == Answer(message, REPLY_SENT, f[2], n1)
        failed(k, n) == Answer(message, REPLY_FAILED, f[k], n)
    IN  IF found = {} \/ found = {0}
        THEN Result(<<>>, umap, popped, next, FALSE, FALSE)
        ELSE IF ~relayed.ok
        THEN Result(<<relayed, failed(2, next)>>, umap, popped,
                    After(failed(2, next), next), ~failed(2, next).ok, TRUE)
        ELSE IF done.ok
        THEN Result(<<relayed, done>>, umap, popped, After(done, n1), FALSE, FALSE)
        ELSE Result(<<relayed, done, failed(3, n1)>>, umap, popped,
                    After(failed(3, n1), n1), ~failed(3, n1).ok, TRUE)

\* bot.py:152-197 (the body; the filter is in Route).
handle_admin_reply(message, f, umap, rmap, next) ==
    LET found      == Get(rmap, message.reply_to)
        user_id    == CHOOSE u \in found : TRUE
        reply_text == Or(message.text, Or(message.caption, MEDIA_PLACEHOLDER))
        relayed    == Outbound(message, user_id, Verbatim(reply_text), NoMarkup, f[1], next)
        n1         == After(relayed, next)
        done       == Answer(message, REPLY_SENT, f[2], n1)
        failed(k, n) == Answer(message, REPLY_FAILED, f[k], n)
    IN  IF found = {} \/ found = {0}
        THEN Result(<<>>, umap, rmap, next, FALSE, FALSE)
        ELSE IF ~relayed.ok
        THEN Result(<<relayed, failed(2, next)>>, umap, rmap,
                    After(failed(2, next), next), ~failed(2, next).ok, TRUE)
        ELSE IF done.ok
        THEN Result(<<relayed, done>>, umap, rmap, After(done, n1), FALSE, FALSE)
        ELSE Result(<<relayed, done, failed(3, n1)>>, umap, rmap,
                    After(failed(3, n1), n1), ~failed(3, n1).ok, TRUE)

\* handle_message gone wrong: the receipt confirmation is attempted whether
\* or not the forward succeeded.
handle_message_always_confirms(message, f, umap, rmap, next) ==
    LET user_id  == message.from_user
        user_message_text == Or(message.text, Or(message.caption, MEDIA_PLACEHOLDER))
        sent_message == Outbound(message, ADMIN_CHAT_ID_INT,
                                 UserNotice(user_message_text, user_id),
                                 create_reply_button(user_id), f[1], next)
        n1       == After(sent_message, next)
        stored   == IF sent_message.ok THEN Put(umap, sent_message.message_id, user_id)
                    ELSE umap
        received == Answer(message, RECEIVED, f[2], n1)
    IN  Result(<<sent_message, received>>, stored, rmap, After(received, n1),
               FALSE, ~sent_message.ok \/ ~received.ok)

\* handle_message gone wrong: the receipt confirmation is sent first, the
\* forward after it.
handle_message_confirms_first(message, f, umap, rmap, next) ==
    LET user_id  == message.from_user
        user_message_text == Or(message.text, Or(message.caption, MEDIA_PLACEHOLDER))
        received == Answer(message, RECEIVED, f[1], next)
        n1       == After(received, next)
        sent_message == Outbound(message, ADMIN_CHAT_ID_INT,
                                 UserNotice(user_message_text, user_id),
                                 create_reply_button(user_id), f[2], n1)
        n2       == After(sent_message, n1)
        sorry(k, n) == Answer(message, RETRY_LATER, f[k], n)
    IN  IF ~received.ok
        THEN Result(<<received, sorry(2, next)>>, umap, rmap,
                    After(sorry(2, next), next), ~sorry(2, next).ok, TRUE)
        ELSE IF sent_message.ok
        THEN Result(<<received, sent_message>>,
                    Put(umap, sent_message.message_id, user_id), rmap, n2, FALSE, FALSE)
        ELSE Result(<<received, sent_message, sorry(3, n1)>>, umap, rmap,
                    After(sorry(3, n1), n1), ~sorry(3, n1).ok, TRUE)

\* bot.py:200-272.
handle_message(message, f, umap, rmap, next) ==
    LET user_id  == message.from_user
        user_message_text == Or(message.text, Or(message.caption, MEDIA_PLACEHOLDER))
        admin_message == UserNotice(user_message_text, user_id)
        sent_message == Outbound(message, ADMIN_CHAT_ID_INT, admin_message,
                                 create_reply_button(user_id), f[1], next)
        n1       == After(sent_message, next)
        stored   == Put(umap, sent_message.message_id, user_id)
        received == Answer(message, RECEIVED, f[2], n1)
        sorry(k, n) == Answer(message, RETRY_LATER, f[k], n)
    IN  IF ~sent_message.ok
        THEN Result(<<sent_message, sorry(2, next)>>, umap, rmap,
                    After(sorry(2, next), next), ~sorry(2, next).ok, TRUE)
        ELSE IF received.ok
        THEN Result(<<sent_message, received>>, stored, rmap, After(received, n1),
                    FALSE, FALSE)
        ELSE Result(<<sent_message, received, sorry(3, n1)>>, stored, rmap,
                    After(sorry(3, n1), n1), ~sorry(3, n1).ok, TRUE)

\* send_daily_motivation gone wrong: no try block around the send.
send_daily_motivation_unguarded(phrase, f, umap, rmap, next) ==
    LET post == Send("send_message", ADMIN_CHAT_ID_INT, Motivation(phrase), "", NoMarkup,
                     f[1], next)
    IN  Result(<<post>>, umap, rmap, After(post, next), ~post.ok, FALSE)

\* bot.py:275-287; phrase is what random.choice returned.
send_daily_motivation(phrase, f, umap, rmap, next) ==
    LET post == Send("send_message", ADMIN_CHAT_ID_INT, Motivation(phrase), "", NoMarkup,
                     f[1], next)
    IN  Result(<<post>>, umap, rmap, After(post, next), FALSE, ~post.ok)

(* ------------------------------- events -------------------------------- *)

\* An inbound update. A message has chat, from_user, text, caption, photo
\* (its sizes, smallest first), video, document and reply_to (the id of the
\* message it replies to, 0 for none); a callback query has data and message
\* (the id of the operator-chat message that carries the pressed button, 0
\* for a payload no button of the bot carries).
Event(kind, chat, from_user, content, reply_to, data, message) ==
    [kind |-> kind, chat |-> chat, from_user |-> from_user,
     text |-> content.text, caption |-> content.caption, photo |-> content.photo,
     video |-> content.video, document |-> content.document,
     reply_to |-> reply_to, data |-> data, message |-> message]

Content(text, caption, photo, video, document) ==
    [text |-> text, caption |-> caption, photo |-> photo, video |-> video,
     document |-> document]

Sizes == <<"small", "large">>

\* Text messages, each kind of media with and without a caption, and
\* messages carrying several kinds of content at once.
Contents ==
    { Content("hi", "", <<>>, "", ""),
      Content("/start", "", <<>>, "", ""),
      Content("", "", Sizes, "", ""),
      Content("", "cap", Sizes, "", ""),
      Content("", "cap", <<>>, "vid", ""),
      Content("", "", <<>>, "", "doc"),
      Content("", "cap", <<>>, "", "doc"),
      Content("", "cap", Sizes, "vid", "doc"),
      Content("", "", <<>>, "vid", "doc"),
      Content("hi", "cap", Sizes, "", ""),
      Content("", "/start", <<>>, "vid", "") }

NoContent == Content("", "", <<>>, "", "")

NoEvent == Event("none", 0, 0, NoContent, 0, <<>>, 0)

\* Messages of users in their private chats, and of the operator in the
\* operator chat, there possibly in reply to any message of that chat.
Messages ==
    {Event("message", u, u, c, 0, <<>>, 0) : u \in Users, c \in Contents}
    \cup {Event("message", ADMIN_CHAT_ID_INT, ADMIN_CHAT_ID_INT, c, r, <<>>, 0) :
              c \in Contents, r \in 0..MaxMsgId}

RECURSIVE SeqsUpTo(_, _)
SeqsUpTo(S, n) ==
    IF n = 0 THEN {<<>>}
    ELSE LET shorter == SeqsUpTo(S, n - 1)
         IN  shorter \cup {Append(s, c) : s \in shorter, c \in S}

\* Callback payloads that no button of the bot carries.
ForeignData == {ReplyPrefix \o s : s \in SeqsUpTo({"_", "0", "x"}, MaxSuffix)}
                   \cup {<<"x">>}

\* Command("start"): the command is looked for in the text, else the caption.
IsStartCommand(m) == Or(m.text, m.caption) = "/start"

\* Route gone wrong: the operator-reply handler is registered before the
\* start handler.
RouteReplyFirst(ev) ==
    IF ev.kind = "message"
    THEN IF ev.chat = ADMIN_CHAT_ID_INT /\ ev.reply_to # 0 THEN "handle_admin_reply"
         ELSE IF Or(ev.text, ev.caption) = "/start" THEN "cmd_start"
         ELSE "handle_message"
    ELSE IF StartsWith(ev.data, ReplyPrefix) THEN "handle_reply_button"
    ELSE "unhandled"

\* The dispatcher: handlers are tried in registration order (bot.py:83,
\* 152, 200 for messages, bot.py:128 for callback queries) and the first
\* whose filter passes runs, alone.
Route(ev) ==
    IF ev.kind = "message"
    THEN IF IsStartCommand(ev) THEN "cmd_start"
         ELSE IF ev.chat = ADMIN_CHAT_ID_INT /\ ev.reply_to # 0 THEN "handle_admin_reply"
         ELSE "handle_message"
    ELSE IF StartsWith(ev.data, ReplyPrefix) THEN "handle_reply_button"
    ELSE "unhandled"

(* ------------------------- start-up and scheduler ---------------------- *)

\* os.getenv(name): {} for None (the variable is not set), else the
\* singleton of its value. The token is unset, empty or set; the operator
\* chat id is unset, empty, the decimal of the operator chat or no number.
Environments ==
    [BOT_TOKEN : {{}, {<<>>}, {<<"t">>}},
     ADMIN_CHAT_ID : {{}, {<<>>}, {ToStr(ADMIN_CHAT_ID_INT)}, {<<"x">>}}]

\* Python's `not v` on an optional string: None and "" are falsy.
Falsy(v) == v = {} \/ v = {<<>>}

\* The configuration gone wrong: the token is not looked at.
configuration_token_unchecked(BOT_TOKEN, ADMIN_CHAT_ID) ==
    IF Falsy(ADMIN_CHAT_ID) THEN "ValueError"
    ELSE IF ~IsInt(CHOOSE v \in ADMIN_CHAT_ID : TRUE) THEN "ValueError"
    ELSE "ok"

\* bot.py:27-36: the two checks and int(ADMIN_CHAT_ID); the exception that
\* leaves the module, or "ok".
configuration(BOT_TOKEN, ADMIN_CHAT_ID) ==
    IF Falsy(BOT_TOKEN) THEN "ValueError"
    ELSE IF Falsy(ADMIN_CHAT_ID) THEN "ValueError"
    ELSE IF ~IsInt(CHOOSE v \in ADMIN_CHAT_ID : TRUE) THEN "ValueError"
    ELSE "ok"

\* CronTrigger(hour=.., minute=..): the hours and minutes it matches.
CronTrigger(hour, minute) == [hour |-> {hour}, minute |-> {minute}]

Matches(trigger, t) == t.hour \in trigger.hour /\ t.minute \in trigger.minute

\* scheduler.add_job(func, trigger, id, replace_existing) on the job list:
\* a job of that id is replaced when replace_existing is set and left in
\* place otherwise (ConflictingIdError); a new id is appended.
add_job(jobs, func, trigger, id, replace_existing) ==
    LET job == [func |-> func, trigger |-> trigger, id |-> id]
    IN  IF \E i \in 1..Len(jobs) : jobs[i].id = id
        THEN IF replace_existing
             THEN [i \in 1..Len(jobs) |-> IF jobs[i].id = id THEN job ELSE jobs[i]]
             ELSE jobs
        ELSE Append(jobs, job)

\* The registration gone wrong: the trigger names the minute only, so it
\* matches every hour.
main_add_job_hourly(jobs) ==
    add_job(jobs, "send_daily_motivation", [hour |-> 0..23, minute |-> {40}],
            "daily_motivation", TRUE)

\* bot.py:297-303.
main_add_job(jobs) ==
    add_job(jobs, "send_daily_motivation", CronTrigger(8, 40), "daily_motivation", TRUE)

\* The times of day the clock passes through: midnight, the trigger's
\* time and two later ones.
TimesOfDay ==
    <<[hour |-> 0, minute |-> 0], [hour |-> 8, minute |-> 40],
      [hour |-> 9, minute |-> 0], [hour |-> 9, minute |-> 40]>>

\* The finally block gone wrong: the session is closed first.
FinallyCloseFirst == <<"bot.session.close", "scheduler.shutdown">>

\* bot.py:311-313: the statements of main's finally block, in order.
Finally == <<"scheduler.shutdown", "bot.session.close">>

\* How dp.start_polling ends: it returns (also on SIGINT and SIGTERM, which
\* it handles itself), it raises an Exception (caught and logged at
\* bot.py:309), or main's task is cancelled.
Endings == {"returned", "Exception", "CancelledError"}

At(at, ending, done) == [at |-> at, ending |-> ending, done |-> done]

(* -------------------------------- state -------------------------------- *)

VARIABLES
    user_message_map,   \* bot.py:44: operator-chat message id -> user id
    reply_message_map,  \* bot.py:48: prompt message id -> user id
    next_id,            \* the transport's next message id in the operator chat
    admin_chat,         \* the bot's messages in the operator chat, by id
    last,               \* the latest handler run: its event and what it did
    environ,            \* bot.py:27-28: the process environment
    pc,                 \* where the module's code and main() stand
    bot,                \* bot.py:39: the transport client and its session
    scheduler,          \* bot.py:296: the scheduler's state and its jobs
    clock,              \* wall-clock time in Europe/Moscow: day and time of day
    fired,              \* the firings of scheduled jobs so far
    tasks,              \* the handler executions in progress
    replies             \* the operator replies handled so far

\* What the handlers share.
state == <<user_message_map, reply_message_map, next_id, admin_chat, last>>

\* The process around them.
life == <<environ, pc, bot, scheduler, clock, fired>>

vars == <<user_message_map, reply_message_map, next_id, admin_chat, last,
          environ, pc, bot, scheduler, clock, fired, tasks, replies>>

EmptyMap == [k \in {} |-> 0]

Ran(handler, ev, r) ==
    [handler |-> handler, ev |-> ev, calls |-> r.calls, raised |-> r.raised,
     logged |-> r.logged]

\* The operator chat after the calls: every delivered message under its id,
\* with its button payload, the user whose event caused it and, for a
\* message caused by a button press, the message that carried the button.
Posted(chat, ev, calls) ==
    LET new == {i \in 1..Len(calls) : calls[i].message_id # 0}
    IN  [k \in (DOMAIN chat) \cup {calls[i].message_id : i \in new} |->
            IF k \in DOMAIN chat THEN chat[k]
            ELSE LET c == calls[CHOOSE i \in new : calls[i].message_id = k]
                 IN  [markup |-> c.markup, from_user |-> ev.from_user,
                      pressed |-> ev.message]]

Init ==
    /\ user_message_map = EmptyMap
    /\ reply_message_map = EmptyMap
    /\ next_id = 1
    /\ admin_chat = EmptyMap
    /\ last = Ran("none", NoEvent, Result(<<>>, EmptyMap, EmptyMap, 1, FALSE, FALSE))
    /\ environ = [BOT_TOKEN |-> {<<"t">>}, ADMIN_CHAT_ID |-> {ToStr(ADMIN_CHAT_ID_INT)}]
    /\ pc = At("polling", "", 0)
    /\ bot = "created"
    /\ scheduler = [state |-> "running", jobs |-> main_add_job(<<>>)]
    /\ clock = [day |-> 0, slot |-> 1]
    /\ fired = <<>>
    /\ tasks = {}
    /\ replies = <<>>

\* The fates that differ in a call some handler makes: a third call is
\* made only after a delivered first and a failed second one.
Fates == {f \in [1..3 -> BOOLEAN] : f[3] => (f[1] /\ ~f[2])}

Idle == last.handler = "none"

\* What one run of a handler or of the daily job leaves behind.
Effects(handler, ev, r) ==
    /\ r.next <= MaxMsgId + 1
    /\ user_message_map' = r.umap
    /\ reply_message_map' = r.rmap
    /\ next_id' = r.next
    /\ admin_chat' = Posted(admin_chat, ev, r.calls)
    /\ last' = Ran(handler, ev, r)

\* One handler run, start to end.
Handled(handler, ev, r) ==
    /\ Effects(handler, ev, r)
    /\ UNCHANGED <<life, tasks, replies>>

\* Presses of the buttons the bot attached to a message.
Buttons ==
    {Event("callback_query", ADMIN_CHAT_ID_INT, ADMIN_CHAT_ID_INT, NoContent, 0,
           admin_chat[k].markup, k) : k \in {j \in DOMAIN admin_chat : admin_chat[j].markup # NoMarkup}}

\* The callback queries that can come in: presses of the bot's buttons, and
\* queries with a payload of somebody else's making.
Presses ==
    Buttons
    \cup {Event("callback_query", ADMIN_CHAT_ID_INT, ADMIN_CHAT_ID_INT, NoContent, 0, d, 0) :
              d \in ForeignData}

CmdStart ==
    /\ Idle
    /\ \E m \in Messages, f \in Fates :
        /\ Route(m) = "cmd_start"
        /\ Handled("cmd_start", m,
                   cmd_start(m, f, user_message_map, reply_message_map, next_id))

HandleReplyButton ==
    /\ Idle
    /\ \E c \in Presses, f \in Fates :
        /\ Route(c) = "handle_reply_button"
        /\ Handled("handle_reply_button", c,
                   handle_reply_button(c, f, user_message_map, reply_message_map, next_id))

HandleAdminReply ==
    /\ Idle
    /\ \E m \in Messages, f \in Fates :
        /\ Route(m) = "handle_admin_reply"
        /\ Handled("handle_admin_reply", m,
                   handle_admin_reply(m, f, user_message_map, reply_message_map, next_id))

HandleMessage ==
    /\ Idle
    /\ \E m \in Messages, f \in Fates :
        /\ Route(m) = "handle_message"
        /\ Handled("handle_message", m,
                   handle_message(m, f, user_message_map, reply_message_map, next_id))

\* A callback query no handler's filter accepts is dropped by the dispatcher.
Unhandled ==
    /\ Idle
    /\ \E c \in Presses :
        /\ Route(c) = "unhandled"
        /\ Handled("unhandled", c,
                   Result(<<>>, user_message_map, reply_message_map, next_id, FALSE, FALSE))

SendDailyMotivation ==
    /\ Idle
    /\ \E i \in 1..Len(MOTIVATIONAL_PHRASES), f \in Fates :
        Handled("send_daily_motivation", NoEvent,
                send_daily_motivation(MOTIVATIONAL_PHRASES[i], f, user_message_map,
                                      reply_message_map, next_id))

\* bot.py:308: the handler has returned (or raised into the dispatcher,
\* which logs the exception) and polling goes on to the next update.
Polling ==
    /\ ~Idle
    /\ last' = Ran("none", NoEvent, Result(<<>>, EmptyMap, EmptyMap, 1, FALSE, FALSE))
    /\ UNCHANGED <<user_message_map, reply_message_map, next_id, admin_chat>>
    /\ UNCHANGED <<life, tasks, replies>>

Next ==
    \/ Polling
    \/ CmdStart
    \/ HandleReplyButton
    \/ HandleAdminReply
    \/ HandleMessage
    \/ Unhandled
    \/ SendDailyMotivation

Spec == Init /\ [][Next]_vars

(* ------------------------- the process as a whole ---------------------- *)
\* The module's start-up code, main() and the scheduler's clock. Handlers
\* run start to end here as well.

MaxDay == 1

\* The updates followed here: the users' text messages and /start
\* commands, presses of the controls the bot posted, and the operator's
\* text replies.
Inbound ==
    {m \in Messages : m.text # "" /\ m.photo = <<>> /\ m.from_user \in Users}
        \cup Buttons
        \cup {m \in Messages : m.text = "hi" /\ m.photo = <<>> /\ m.reply_to # 0}

\* The dispatcher calling the handler it chose.
Run(handler, ev, f, umap, rmap, next) ==
    CASE handler = "cmd_start" -> cmd_start(ev, f, umap, rmap, next)
      [] handler = "handle_reply_button" -> handle_reply_button(ev, f, umap, rmap, next)
      [] handler = "handle_admin_reply" -> handle_admin_reply(ev, f, umap, rmap, next)
      [] handler = "handle_message" -> handle_message(ev, f, umap, rmap, next)
      [] OTHER -> Result(<<>>, umap, rmap, next, FALSE, FALSE)

MainInit ==
    /\ user_message_map = EmptyMap
    /\ reply_message_map = EmptyMap
    /\ next_id = 1
    /\ admin_chat = EmptyMap
    /\ last = Ran("none", NoEvent, Result(<<>>, EmptyMap, EmptyMap, 1, FALSE, FALSE))
    /\ environ \in Environments
    /\ pc = At("import", "", 0)
    /\ bot = "none"
    /\ scheduler = [state |-> "none", jobs |-> <<>>]
    /\ clock \in [day : {0}, slot : 1..Len(TimesOfDay)]
    /\ fired = <<>>
    /\ tasks = {}
    /\ replies = <<>>

\* bot.py:27-36.
Configure ==
    /\ Idle
    /\ pc.at = "import"
    /\ pc' = IF configuration(environ.BOT_TOKEN, environ.ADMIN_CHAT_ID) = "ok"
             THEN At("configured", "", 0) ELSE At("fatal", "", 0)
    /\ UNCHANGED <<state, environ, bot, scheduler, clock, fired, tasks, replies>>

\* bot.py:39-40, and asyncio.run(main()) up to bot.py:296.
CreateBot ==
    /\ Idle
    /\ pc.at = "configured"
    /\ bot' = "created"
    /\ pc' = At("main", "", 0)
    /\ UNCHANGED <<state, environ, scheduler, clock, fired, tasks, replies>>

\* bot.py:296-303.
AddJob ==
    /\ Idle
    /\ pc.at = "main"
    /\ scheduler' = [state |-> "stopped", jobs |-> main_add_job(<<>>)]
    /\ pc' = At("added", "", 0)
    /\ UNCHANGED <<state, environ, bot, clock, fired, tasks, replies>>

\* bot.py:304-308: scheduler.start(), then main waits in dp.start_polling.
StartScheduler ==
    /\ Idle
    /\ pc.at = "added"
    /\ scheduler' = [scheduler EXCEPT !.state = "running"]
    /\ pc' = At("polling", "", 0)
    /\ UNCHANGED <<state, environ, bot, clock, fired, tasks, replies>>

\* bot.py:308: polling hands an update to the dispatcher.
Update ==
    /\ Idle
    /\ pc.at = "polling"
    /\ \E ev \in Inbound, f \in Fates :
           Handled(Route(ev), ev,
                   Run(Route(ev), ev, f, user_message_map, reply_message_map, next_id))

NextClock ==
    IF clock.slot < Len(TimesOfDay)
    THEN [day |-> clock.day, slot |-> clock.slot + 1]
    ELSE [day |-> clock.day + 1, slot |-> 1]

\* The jobs a running scheduler runs when the clock shows c.
Due(c) ==
    IF scheduler.state = "running"
    THEN {i \in 1..Len(scheduler.jobs) : Matches(scheduler.jobs[i].trigger, TimesOfDay[c.slot])}
    ELSE {}

\* Time passes to the next time of day, at which no job is due.
Tick ==
    /\ Idle
    /\ NextClock.day <= MaxDay
    /\ Due(NextClock) = {}
    /\ clock' = NextClock
    /\ UNCHANGED <<state, environ, pc, bot, scheduler, fired, tasks, replies>>

\* Time passes to the next time of day and the scheduler runs the job that
\* is due then: bot.py:275-287.
Fire ==
    /\ Idle
    /\ NextClock.day <= MaxDay
    /\ \E j \in Due(NextClock), i \in 1..Len(MOTIVATIONAL_PHRASES), f \in Fates :
           LET r == send_daily_motivation(MOTIVATIONAL_PHRASES[i], f, user_message_map,
                                          reply_message_map, next_id)
           IN  /\ Effects(scheduler.jobs[j].func, NoEvent, r)
               /\ fired' = Append(fired, [day |-> NextClock.day,
                                          time |-> TimesOfDay[NextClock.slot],
                                          id |-> scheduler.jobs[j].id,
                                          ok |-> r.calls[1].ok,
                                          session |-> bot])
    /\ clock' = NextClock
    /\ UNCHANGED <<environ, pc, bot, scheduler, tasks, replies>>

\* bot.py:308-311: dp.start_polling ends and main enters its finally block.
PollingEnds ==
    /\ Idle
    /\ pc.at = "polling"
    /\ \E ending \in Endings : pc' = At("finally", ending, 0)
    /\ UNCHANGED <<state, environ, bot, scheduler, clock, fired, tasks, replies>>

\* bot.py:311-313: the next statement of the finally block.
MainFinally ==
    /\ Idle
    /\ pc.at = "finally"
    /\ LET statement == Finally[pc.done + 1]
       IN  /\ scheduler' = IF statement = "scheduler.shutdown"
                           THEN [scheduler EXCEPT !.state = "shutdown"] ELSE scheduler
           /\ bot' = IF statement = "bot.session.close" THEN "closed" ELSE bot
    /\ pc' = IF pc.done + 1 = Len(Finally) THEN At("returned", pc.ending, pc.done + 1)
             ELSE At("finally", pc.ending, pc.done + 1)
    /\ UNCHANGED <<state, environ, clock, fired, tasks, replies>>

MainNext ==
    \/ Configure
    \/ CreateBot
    \/ AddJob
    \/ StartScheduler
    \/ Update
    \/ Polling
    \/ Tick
    \/ Fire
    \/ PollingEnds
    \/ MainFinally

MainSpec == MainInit /\ [][MainNext]_vars

(* ------------------------- replies to one prompt ----------------------- *)
\* The operator replying again and again: users' text messages, presses
\* of the controls the bot posted, and the operator's text replies to the
\* prompts those presses made, with a record, for every prompt replied to,
\* of what the operator-reply handler did with the replies.

\* Message ids the transport hands out here: 1..MaxRelayMsgId.
MaxRelayMsgId == 4

RelayInbound ==
    {Event("message", u, u, Content("hi", "", <<>>, "", ""), 0, <<>>, 0) : u \in Users}
        \cup Buttons
        \cup {Event("message", ADMIN_CHAT_ID_INT, ADMIN_CHAT_ID_INT,
                    Content("hi", "", <<>>, "", ""), k, <<>>, 0) :
                  k \in {j \in DOMAIN admin_chat : admin_chat[j].pressed # 0}}

\* One operator reply as the handler met it: whether the message replied
\* to was a key of the reply-prompt table, and where the content went, if
\* anywhere.
Relay(ev, rmap, r) ==
    [tracked |-> ev.reply_to \in DOMAIN rmap,
     sent |-> r.calls # <<>>,
     to |-> IF r.calls = <<>> THEN 0 ELSE r.calls[1].chat_id]

\* The record with one more reply: per message replied to, the different
\* ways its replies went, and the operator chat's next message id at the
\* first and at the latest of them.
Heard(heard, ev, rmap, next, r) ==
    LET p == ev.reply_to
    IN  [k \in (DOMAIN heard) \cup {p} |->
            IF k # p THEN heard[k]
            ELSE IF p \in DOMAIN heard
            THEN [seen |-> heard[p].seen \cup {Relay(ev, rmap, r)},
                  first |-> heard[p].first, latest |-> next]
            ELSE [seen |-> {Relay(ev, rmap, r)}, first |-> next, latest |-> next]]

\* What a handler run leaves in the tables and in the operator chat.
Leaves(ev, r) ==
    /\ r.next <= MaxRelayMsgId + 1
    /\ user_message_map' = r.umap
    /\ reply_message_map' = r.rmap
    /\ next_id' = r.next
    /\ admin_chat' = Posted(admin_chat, ev, r.calls)

\* A user's message or a press is handled.
RelayUpdate ==
    /\ \E ev \in RelayInbound, f \in Fates :
           /\ Route(ev) # "handle_admin_reply"
           /\ Leaves(ev, Run(Route(ev), ev, f, user_message_map, reply_message_map, next_id))
    /\ UNCHANGED <<last, life, tasks, replies>>

\* A reply of the operator is handled: bot.py:152-197.
RelayReply ==
    /\ \E ev \in RelayInbound, f \in Fates :
           LET r == Run(Route(ev), ev, f, user_message_map, reply_message_map, next_id)
           IN  /\ Route(ev) = "handle_admin_reply"
               /\ Leaves(ev, r)
               /\ replies' = Heard(replies, ev, reply_message_map, next_id, r)
    /\ UNCHANGED <<last, life, tasks>>

RelayNext ==
    \/ RelayUpdate
    \/ RelayReply

RelaySpec == Init /\ [][RelayNext]_vars

(* ------------------------- handlers as tasks --------------------------- *)
\* dp.start_polling(bot) is called with its defaults, and aiogram's default
\* is handle_as_tasks=True: polling wraps the handling of each update in a
\* task of its own (asyncio.create_task) and goes on to the next update
\* without awaiting it. The scheduler runs the daily job as one more task
\* on the same loop. A task runs until its next await of an outbound call
\* and any other task may run before that await returns. A handler reads a
\* table only before its first await, and a hit stays a hit (the tables
\* only grow), so the calls a task has yet to make are those of a run from
\* the tables as they are now.

MaxTasks == 2

\* A handler execution suspended in an await: done holds the outcomes of
\* the calls it has made; the call after those is the one awaited.
Task(handler, ev) == [handler |-> handler, ev |-> ev, done |-> <<>>]

\* The run of task t with its calls so far, the next one ending as ok says.
RunTask(t, ok, phrase, umap, rmap, next) ==
    LET f == [i \in 1..3 |-> IF i <= Len(t.done) THEN t.done[i]
                             ELSE IF i = Len(t.done) + 1 THEN ok ELSE TRUE]
    IN  IF t.handler = "send_daily_motivation"
        THEN send_daily_motivation(phrase, f, umap, rmap, next)
        ELSE Run(t.handler, t.ev, f, umap, rmap, next)

\* What random.choice returned shows in the text of the job's post and
\* nowhere else; the text of a post is not kept here, so one phrase stands
\* for any.
AnyPhrase == CHOOSE phrase \in {MOTIVATIONAL_PHRASES[i] : i \in 1..Len(MOTIVATIONAL_PHRASES)} : TRUE

\* The updates followed here: the users' text messages, presses of the
\* controls the bot posted, and the operator's text replies.
TaskInbound == {ev \in Inbound : ~IsStartCommand(ev)}

TaskInit == Init

\* Polling takes the next update and creates the task that handles it; the
\* task runs up to its first await. A handler that makes no call (an
\* untracked reply) has ended by then.
CreateTask ==
    /\ Cardinality(tasks) < MaxTasks
    /\ \E ev \in TaskInbound :
           LET t == Task(Route(ev), ev)
               r == RunTask(t, TRUE, "", user_message_map, reply_message_map, next_id)
           IN  /\ t \notin tasks
               /\ tasks' = IF r.calls = <<>> THEN tasks ELSE tasks \cup {t}
    /\ UNCHANGED <<state, life, replies>>

\* The scheduler creates the task that runs the daily job; it runs up to
\* the await of its send.
CreateJob ==
    /\ Cardinality(tasks) < MaxTasks
    /\ scheduler.state = "running"
    /\ \E j \in 1..Len(scheduler.jobs) :
           /\ Task(scheduler.jobs[j].func, NoEvent) \notin tasks
           /\ tasks' = tasks \cup {Task(scheduler.jobs[j].func, NoEvent)}
    /\ UNCHANGED <<state, life, replies>>

\* Await gone wrong: a task is suspended once more between the return of a
\* send and the store write for it, so the write for a message is made only
\* when the task's next await returns.
AwaitThenStoreLater ==
    /\ \E t \in tasks, ok \in BOOLEAN :
       \E r \in {RunTask(t, ok, AnyPhrase, user_message_map, reply_message_map, next_id)} :
       \E call \in {r.calls[Len(t.done) + 1]} :
           LET k == Len(t.done) + 1
               posted == call.message_id # 0
               sent == [call EXCEPT !.message_id = IF posted THEN next_id ELSE 0]
               resumed == [t EXCEPT !.done = Append(t.done, ok)]
               owed == {j \in DOMAIN admin_chat :
                            /\ admin_chat[j].from_user = t.ev.from_user
                            /\ admin_chat[j].pressed = t.ev.message
                            /\ j \notin (DOMAIN user_message_map) \cup (DOMAIN reply_message_map)}
               forwards == {j \in owed : admin_chat[j].markup # NoMarkup}
               prompts == {j \in owed : admin_chat[j].pressed # 0}
           IN  /\ posted => next_id <= MaxMsgId
               /\ next_id' = IF posted THEN next_id + 1 ELSE next_id
               /\ admin_chat' = Posted(admin_chat, t.ev, <<sent>>)
               /\ user_message_map' =
                      [j \in (DOMAIN user_message_map) \cup forwards |->
                          IF j \in forwards THEN admin_chat[j].from_user
                          ELSE user_message_map[j]]
               /\ reply_message_map' =
                      [j \in (DOMAIN reply_message_map) \cup prompts |->
                          IF j \in prompts THEN admin_chat[admin_chat[j].pressed].from_user
                          ELSE reply_message_map[j]]
               /\ IF Len(r.calls) > k
                  THEN /\ resumed \notin tasks
                       /\ tasks' = (tasks \ {t}) \cup {resumed}
                  ELSE tasks' = tasks \ {t}
    /\ UNCHANGED <<last, life, replies>>

\* The await a task is suspended in returns or raises: the task makes the
\* store write that follows it, if any, and runs on to its next await or
\* to its end.
Await ==
    /\ \E t \in tasks, ok \in BOOLEAN :
       \E r \in {RunTask(t, ok, AnyPhrase, user_message_map, reply_message_map, next_id)} :
       \E call \in {r.calls[Len(t.done) + 1]} :
           LET k == Len(t.done) + 1
               posted == call.message_id # 0
               sent == [call EXCEPT !.message_id = IF posted THEN next_id ELSE 0]
               resumed == [t EXCEPT !.done = Append(t.done, ok)]
           IN  /\ posted => next_id <= MaxMsgId
               /\ next_id' = IF posted THEN next_id + 1 ELSE next_id
               /\ admin_chat' = Posted(admin_chat, t.ev, <<sent>>)
               /\ user_message_map' =
                      IF posted /\ call.message_id \in DOMAIN r.umap
                      THEN Put(user_message_map, next_id, r.umap[call.message_id])
                      ELSE user_message_map
               /\ reply_message_map' =
                      IF posted /\ call.message_id \in DOMAIN r.rmap
                      THEN Put(reply_message_map, next_id, r.rmap[call.message_id])
                      ELSE reply_message_map
               /\ IF Len(r.calls) > k
                  THEN /\ resumed \notin tasks
                       /\ tasks' = (tasks \ {t}) \cup {resumed}
                  ELSE tasks' = tasks \ {t}
    /\ UNCHANGED <<last, life, replies>>

TaskNext ==
    \/ CreateTask
    \/ CreateJob
    \/ Await

TaskSpec == TaskInit /\ [][TaskNext]_vars

(* ------------------------------ properties ----------------------------- *)

\* The user ids a well-formed payload may name.
KnownIds == Users \cup {0, ADMIN_CHAT_ID_INT}

\* The text the operator-reply handler sends along: the message's text if
\* present, else its caption, else the placeholder.
Accompanying(m) ==
    IF m.text # "" THEN m.text ELSE IF m.caption # "" THEN m.caption ELSE MEDIA_PLACEHOLDER

IsOperatorNotice(c, m) ==
    /\ c.api = "send_message"
    /\ c.chat_id = m.chat
    /\ c.content \in {REPLY_SENT, REPLY_FAILED}

\* C1: round trip. When the operator's message (one that is not the /start
\* command, which the dispatcher gives to the registration handler) replies
\* to the prompt p that a press of the Reply control on message k produced,
\* and k was posted for user U's message or start, then the first call of
\* the handler is a send to U carrying the operator's text, and every other
\* call goes to the operator chat: no other user is sent anything. This
\* holds whatever other messages, presses and prompts came in between.
C1_RoundTrip ==
    \A p \in DOMAIN admin_chat :
        ( /\ last.handler = "handle_admin_reply"
          /\ last.ev.reply_to = p
          /\ admin_chat[p].pressed # 0 )
        => LET U == admin_chat[admin_chat[p].pressed].from_user
           IN  /\ Len(last.calls) >= 2
               /\ last.calls[1].chat_id = U
               /\ last.ev.text # "" => last.calls[1].content = Verbatim(last.ev.text)
               /\ last.calls[1].content.body = Accompanying(last.ev)
               /\ \A i \in 2..Len(last.calls) : IsOperatorNotice(last.calls[i], last.ev)

\* C1 witness: user U's message got id k, the control on k was pressed and
\* gave prompt p, an entry for another user was made in between, and the
\* operator's text reply to p has been delivered to U.
C1_Witness ==
    /\ last.handler = "handle_admin_reply"
    /\ last.ev.text = "hi"
    /\ last.ev.reply_to \in DOMAIN admin_chat
    /\ LET p == last.ev.reply_to
           k == admin_chat[p].pressed
       IN  /\ k # 0
           /\ admin_chat[k].from_user \in Users
           /\ last.calls[1].ok
           /\ last.calls[1].chat_id = admin_chat[k].from_user
           /\ \E j \in (k + 1)..(p - 1) :
                  \/ j \in DOMAIN user_message_map
                       /\ user_message_map[j] # admin_chat[k].from_user
                  \/ j \in DOMAIN reply_message_map
                       /\ reply_message_map[j] # admin_chat[k].from_user

\* C2: a press of a Reply control made for user U (payload "reply_" and U
\* in decimal) whose prompt is delivered under message id p stores p -> U in
\* the reply-prompt table, p being a new key; every entry the two tables
\* held before the press is still there with its value.
C2_PressStoresItsUser ==
    [][ last'.handler = "handle_reply_button" =>
          /\ \A U \in KnownIds :
                 ( /\ last'.ev.data = create_reply_button(U)
                   /\ last'.calls[1].content = PROMPT
                   /\ last'.calls[1].ok )
                 => LET p == last'.calls[1].message_id
                    IN  /\ p \notin DOMAIN reply_message_map
                        /\ p \in DOMAIN reply_message_map'
                        /\ reply_message_map'[p] = U
          /\ \A k \in DOMAIN reply_message_map :
                 k \in DOMAIN reply_message_map' /\ reply_message_map'[k] = reply_message_map[k]
          /\ user_message_map' = user_message_map
      ]_vars

\* C2 witness: a press for a user has just stored its entry next to an
\* earlier entry for somebody else.
C2_Witness ==
    /\ last.handler = "handle_reply_button"
    /\ last.calls[1].ok
    /\ last.calls[1].message_id \in DOMAIN reply_message_map
    /\ reply_message_map[last.calls[1].message_id] \in Users
    /\ last.ev.data = create_reply_button(reply_message_map[last.calls[1].message_id])
    /\ \E k \in DOMAIN reply_message_map :
           /\ k < last.calls[1].message_id
           /\ reply_message_map[k] # reply_message_map[last.calls[1].message_id]

\* C3: whenever the operator-reply handler sends content, that is its first
\* call and its only call besides the notice to the operator; it goes to the
\* user stored for the replied-to prompt, by send_photo if the message has a
\* photo, else send_video if it has a video, else send_document if it has a
\* document, else send_message, and carries the message's text if present,
\* else its caption, else the placeholder.
C3_ContentSelection ==
    (last.handler = "handle_admin_reply" /\ last.calls # <<>>) =>
        LET m == last.ev
            c == last.calls[1]
        IN  /\ m.reply_to \in DOMAIN reply_message_map
            /\ c.chat_id = reply_message_map[m.reply_to]
            /\ c.api = IF m.photo # <<>> THEN "send_photo"
                       ELSE IF m.video # "" THEN "send_video"
                       ELSE IF m.document # "" THEN "send_document"
                       ELSE "send_message"
            /\ c.file = IF m.photo # <<>> THEN m.photo[Len(m.photo)]
                        ELSE IF m.video # "" THEN m.video
                        ELSE m.document
            /\ c.content = Verbatim(Accompanying(m))
            /\ \A i \in 2..Len(last.calls) : IsOperatorNotice(last.calls[i], m)

\* C3 witness: a reply carrying photo, video and document went out as a photo.
C3_Witness ==
    /\ last.handler = "handle_admin_reply"
    /\ last.ev.photo # <<>> /\ last.ev.video # "" /\ last.ev.document # ""
    /\ last.calls # <<>>
    /\ last.calls[1].api = "send_photo"
    /\ last.calls[1].ok
    /\ last.calls[1].chat_id \in Users

\* C4: an operator message (not the /start command) replying to a message
\* id that is no key of the reply-prompt table makes no outbound call at
\* all and leaves both tables as they were, also when that id is a key of
\* the forwarded-message table.
C4_UntrackedReplyIsNoOp ==
    [][ ( /\ last'.handler = "handle_admin_reply"
          /\ last'.ev.reply_to \notin DOMAIN reply_message_map )
        => /\ last'.calls = <<>>
           /\ ~last'.raised
           /\ user_message_map' = user_message_map
           /\ reply_message_map' = reply_message_map
      ]_vars

\* C4 witness: the operator replied to a forwarded message itself, and
\* nothing was sent.
C4_Witness ==
    /\ last.handler = "handle_admin_reply"
    /\ last.ev.reply_to \in DOMAIN user_message_map
    /\ last.ev.reply_to \notin DOMAIN reply_message_map
    /\ last.calls = <<>>

\* C5: every message delivered to the operator chat with a Reply control
\* (a forwarded text, photo, video or document, or a registration notice)
\* has its returned message id in the forwarded-message table, mapped to the
\* id of the user whose event caused the send.
C5_ForwardRecorded ==
    /\ \A k \in DOMAIN admin_chat :
           admin_chat[k].markup # NoMarkup =>
               k \in DOMAIN user_message_map
                   /\ user_message_map[k] = admin_chat[k].from_user
    /\ last.handler \in {"cmd_start", "handle_message"} =>
           \A i \in 1..Len(last.calls) :
               (last.calls[i].markup # NoMarkup /\ last.calls[i].ok) =>
                   /\ last.calls[i].message_id \in DOMAIN user_message_map
                   /\ user_message_map[last.calls[i].message_id] = last.ev.from_user

\* C5 witness: a user's document has just been forwarded and recorded, next
\* to the entry of another user's registration notice or message.
C5_Witness ==
    /\ last.handler = "handle_message"
    /\ last.calls[1].api = "send_document"
    /\ last.calls[1].ok
    /\ last.calls[1].message_id \in DOMAIN user_message_map
    /\ last.ev.from_user \in Users
    /\ \E k \in DOMAIN user_message_map : user_message_map[k] # last.ev.from_user

\* C6: on a start event from user U the handler makes exactly one welcome
\* send, to U and as its first call, and at most one operator-notice send;
\* when the operator-notice send fails the welcome has been delivered, and
\* the handler makes no call besides these two, so U is told nothing of
\* the failure.
C6_WelcomeThenNotice ==
    last.handler = "cmd_start" =>
        LET welcomes == {i \in 1..Len(last.calls) : last.calls[i].content = WELCOME}
            notices  == {i \in 1..Len(last.calls) :
                             last.calls[i].content = StartNotice(last.ev.from_user)}
        IN  /\ welcomes = {1}
            /\ last.calls[1].chat_id = last.ev.chat
            /\ last.calls[1].api = "send_message"
            /\ Cardinality(notices) <= 1
            /\ \A i \in notices : last.calls[i].chat_id = ADMIN_CHAT_ID_INT
            /\ welcomes \cup notices = 1..Len(last.calls)
            /\ (\E i \in notices : ~last.calls[i].ok) => last.calls[1].ok

\* C6 witness: a user's /start whose operator notice failed after the
\* welcome was delivered.
C6_Witness ==
    /\ last.handler = "cmd_start"
    /\ last.ev.from_user \in Users
    /\ Len(last.calls) = 2
    /\ last.calls[1].ok
    /\ ~last.calls[2].ok
    /\ last.logged

\* "reply_" followed by one decimal integer and nothing else.
WellFormedPayload(data) ==
    /\ StartsWith(data, ReplyPrefix)
    /\ Len(data) > Len(ReplyPrefix)
    /\ \A i \in (Len(ReplyPrefix) + 1)..Len(data) : IsDigit(data[i])

\* C7 as claimed: a press whose payload is not "reply_" and one decimal
\* integer ends in a logged error and the failure acknowledgment only: no
\* prompt is posted, no reply-prompt entry is made and, the acknowledgment
\* delivered, the handler does not raise.
C7_MalformedPayloadRejected ==
    [][ ( /\ last'.handler = "handle_reply_button"
          /\ ~WellFormedPayload(last'.ev.data) )
        => /\ last'.logged
           /\ \A i \in 1..Len(last'.calls) : last'.calls[i].content = PRESS_ERR
           /\ reply_message_map' = reply_message_map
           /\ (\A i \in 1..Len(last'.calls) : last'.calls[i].ok) => ~last'.raised
      ]_vars

\* C8 as claimed: the user-message handler never runs for a message of the
\* operator, and an operator message in the operator chat that is neither a
\* reply nor the /start command causes no outbound call and no change to
\* either table.
C8_OperatorMessageUnhandled ==
    [][ /\ last'.handler = "handle_message" => last'.ev.from_user # ADMIN_CHAT_ID_INT
        /\ ( /\ last'.ev.kind = "message"
             /\ last'.ev.chat = ADMIN_CHAT_ID_INT
             /\ last'.ev.from_user = ADMIN_CHAT_ID_INT
             /\ last'.ev.reply_to = 0
             /\ ~IsStartCommand(last'.ev) )
           => /\ last'.calls = <<>>
              /\ user_message_map' = user_message_map
              /\ reply_message_map' = reply_message_map
      ]_vars

\* C9 as claimed: no handler run and no run of the daily job ends with an
\* exception leaving it, whichever of its outbound calls failed.
C9_NothingPropagates ==
    ~last.raised

\* C10 as claimed: in the user-message handler the receipt confirmation is
\* attempted whether or not the forward failed, and a forward that succeeded
\* stays recorded whether or not the confirmation failed.
C10_ForwardAndReceiptIndependent ==
    last.handler = "handle_message" =>
        /\ \E i \in 1..Len(last.calls) : last.calls[i].content = RECEIVED
        /\ last.calls[1].ok =>
               /\ last.calls[1].message_id \in DOMAIN user_message_map
               /\ user_message_map[last.calls[1].message_id] = last.ev.from_user

\* C10 amended: the forward comes first. If it fails, the receipt
\* confirmation is not attempted and the retry-later notice is sent to the
\* user's chat instead; if it succeeds, the receipt confirmation is
\* attempted next, and the forward stays recorded in the forwarded-message
\* table whether or not the confirmation is delivered.
C10_ReceiptOnlyAfterForward ==
    last.handler = "handle_message" =>
        LET forward == last.calls[1]
        IN  /\ forward.chat_id = ADMIN_CHAT_ID_INT
            /\ forward.markup = create_reply_button(last.ev.from_user)
            /\ ~forward.ok =>
                   /\ \A i \in 1..Len(last.calls) : last.calls[i].content # RECEIVED
                   /\ Len(last.calls) = 2
                   /\ last.calls[2].content = RETRY_LATER
                   /\ last.calls[2].chat_id = last.ev.chat
            /\ forward.ok =>
                   /\ last.calls[2].content = RECEIVED
                   /\ last.calls[2].chat_id = last.ev.chat
                   /\ forward.message_id \in DOMAIN user_message_map
                   /\ user_message_map[forward.message_id] = last.ev.from_user

\* C10 witness: a user's message was forwarded and recorded, and the
\* receipt confirmation then failed.
C10_Witness ==
    /\ last.handler = "handle_message"
    /\ last.ev.from_user \in Users
    /\ Len(last.calls) = 3
    /\ last.calls[1].ok
    /\ last.calls[2].content = RECEIVED
    /\ ~last.calls[2].ok
    /\ last.calls[1].message_id \in DOMAIN user_message_map

\* C11: for an operator reply to a tracked prompt (one that sends content):
\* when the send to the user is delivered the next call is the short
\* confirmation, to the operator chat; when it fails the next and last call
\* is the generic failure notice, to the operator chat, and no confirmation
\* is sent; every call after the content goes to the operator chat, so a
\* user other than the operator is never sent a failure notice.
C11_OperatorIsTold ==
    (last.handler = "handle_admin_reply" /\ last.calls # <<>>) =>
        LET relayed == last.calls[1]
            rest    == 2..Len(last.calls)
        IN  /\ relayed.content = Verbatim(Accompanying(last.ev))
            /\ Len(last.calls) >= 2
            /\ relayed.ok => last.calls[2].content = REPLY_SENT
            /\ ~relayed.ok =>
                   /\ Len(last.calls) = 2
                   /\ last.calls[2].content = REPLY_FAILED
                   /\ \A i \in rest : last.calls[i].content # REPLY_SENT
            /\ \A i \in rest :
                   /\ last.calls[i].api = "send_message"
                   /\ last.calls[i].chat_id = ADMIN_CHAT_ID_INT
                   /\ last.calls[i].content \in {REPLY_SENT, REPLY_FAILED}
            /\ \A i \in 1..Len(last.calls) :
                   last.calls[i].content \in {REPLY_FAILED, RETRY_LATER, PRESS_ERR}
                       => last.calls[i].chat_id \notin Users

\* C11 witness: the send to a user failed and the operator got the failure
\* notice.
C11_Witness ==
    /\ last.handler = "handle_admin_reply"
    /\ Len(last.calls) = 2
    /\ last.calls[1].chat_id \in Users
    /\ ~last.calls[1].ok
    /\ last.calls[2].content = REPLY_FAILED
    /\ last.calls[2].ok

\* C12 as claimed: a press ends in success (prompt posted, entry stored,
\* normal acknowledgment, no error acknowledgment) or in failure (error
\* acknowledgment, no prompt posted, no entry stored), never in a mix.
C12_PressIsAllOrNothing ==
    last.handler = "handle_reply_button" =>
        LET calls   == last.calls
            posted  == {i \in 1..Len(calls) : calls[i].content = PROMPT /\ calls[i].ok}
            stored  == {i \in posted : calls[i].message_id \in DOMAIN reply_message_map}
            acks    == {i \in 1..Len(calls) : calls[i].content = PRESS_OK}
            errors  == {i \in 1..Len(calls) : calls[i].content = PRESS_ERR}
            success == posted # {} /\ stored = posted /\ acks # {} /\ errors = {}
            failure == errors # {} /\ posted = {} /\ stored = {}
        IN  success \/ failure

\* C17: both tables are append-only. Every step of the program, whatever
\* the event or the daily-job firing, keeps every key of either table in
\* that table with the user id it had (the transport hands out a new
\* message id for every message it posts).
C17_AppendOnly ==
    [][ /\ \A k \in DOMAIN user_message_map :
               k \in DOMAIN user_message_map' /\ user_message_map'[k] = user_message_map[k]
        /\ \A k \in DOMAIN reply_message_map :
               k \in DOMAIN reply_message_map' /\ reply_message_map'[k] = reply_message_map[k]
      ]_vars

\* C17 witness: the forwarded-message table holds three entries, the
\* newest just stored by the user-message handler for a user other than
\* the one of the oldest.
C17_Witness ==
    /\ last.handler = "handle_message"
    /\ last.calls[1].ok
    /\ Cardinality(DOMAIN user_message_map) >= 3
    /\ last.calls[1].message_id \in DOMAIN user_message_map
    /\ \E k \in DOMAIN user_message_map :
           /\ \A j \in DOMAIN user_message_map : k <= j
           /\ user_message_map[k] # user_message_map[last.calls[1].message_id]

\* C18: after every step the forwarded-message table and the reply-prompt
\* table share no key, and a key new to one table was not a key of the
\* other before the step: no entry moves or is copied across.
C18_TablesDisjoint ==
    [][ /\ (DOMAIN user_message_map') \cap (DOMAIN reply_message_map') = {}
        /\ ((DOMAIN user_message_map') \ (DOMAIN user_message_map))
               \cap (DOMAIN reply_message_map) = {}
        /\ ((DOMAIN reply_message_map') \ (DOMAIN reply_message_map))
               \cap (DOMAIN user_message_map) = {}
      ]_vars

\* C18 witness: a press has just stored a prompt entry for a user who also
\* has an entry in the forwarded-message table, under another key.
C18_Witness ==
    /\ last.handler = "handle_reply_button"
    /\ last.calls[1].ok
    /\ last.calls[1].message_id \in DOMAIN reply_message_map
    /\ \E k \in DOMAIN user_message_map :
           /\ user_message_map[k] = reply_message_map[last.calls[1].message_id]
           /\ user_message_map[k] \in Users
           /\ k = last.ev.message

\* What each message handler sends, and nothing else.
SentBy(handler, ev) ==
    IF handler = "cmd_start" THEN {WELCOME, StartNotice(ev.from_user)}
    ELSE IF handler = "handle_admin_reply"
    THEN {Verbatim(Accompanying(ev)), REPLY_SENT, REPLY_FAILED}
    ELSE {UserNotice(Accompanying(ev), ev.from_user), RECEIVED, RETRY_LATER}

\* C19: a message event is handled by one handler, the first that matches
\* in the order start, operator reply, user message. A /start command runs
\* the registration handler, also in the operator chat in reply to a
\* tracked prompt; any other reply in the operator chat runs the
\* operator-reply handler; everything else runs the user-message handler.
\* The calls made for the event are those of that one handler: an operator
\* reply, tracked or not, is never forwarded and leaves the
\* forwarded-message table alone.
C19_FirstMatchWins ==
    [][ last'.ev.kind = "message" =>
          LET m == last'.ev
              start == Or(m.text, m.caption) = "/start"
              reply == m.chat = ADMIN_CHAT_ID_INT /\ m.reply_to # 0
          IN  /\ last'.handler = IF start THEN "cmd_start"
                                 ELSE IF reply THEN "handle_admin_reply"
                                 ELSE "handle_message"
              /\ \A i \in 1..Len(last'.calls) :
                     last'.calls[i].content \in SentBy(last'.handler, m)
              /\ (reply /\ ~start) =>
                     /\ \A i \in 1..Len(last'.calls) : last'.calls[i].markup = NoMarkup
                     /\ user_message_map' = user_message_map
              /\ start => reply_message_map' = reply_message_map
      ]_vars

\* C19 witness: the operator sent /start in reply to a tracked prompt and
\* got the welcome; nothing was relayed to the prompt's user.
C19_Witness ==
    /\ last.handler = "cmd_start"
    /\ last.ev.chat = ADMIN_CHAT_ID_INT
    /\ last.ev.reply_to \in DOMAIN reply_message_map
    /\ reply_message_map[last.ev.reply_to] \in Users
    /\ last.calls[1].content = WELCOME
    /\ last.calls[1].ok

\* C13: the job is in the scheduler once, under the id "daily_motivation",
\* and no calendar day sees more than one firing.
C13_OncePerDay ==
    /\ Cardinality({i \in 1..Len(scheduler.jobs) :
                        scheduler.jobs[i].id = "daily_motivation"}) <= 1
    /\ Len(scheduler.jobs) <= 1
    /\ \A i \in 1..Len(fired) : fired[i].id = "daily_motivation"
    /\ \A d \in 0..clock.day :
           Cardinality({i \in 1..Len(fired) : fired[i].day = d}) <= 1

\* C13 witness: the job fired on two days in a row, and the second day
\* has gone on to its last time of day without another firing.
C13_Witness ==
    /\ Len(fired) = 2
    /\ fired[2].day = fired[1].day + 1
    /\ clock.day = fired[2].day
    /\ clock.slot = Len(TimesOfDay)
    /\ scheduler.state = "running"

\* The clock has reached, on day d, a time at which a job of the scheduler
\* is due.
DuePassed(d) ==
    \/ clock.day > d
    \/ /\ clock.day = d
       /\ \E s \in 1..clock.slot, j \in 1..Len(scheduler.jobs) :
              Matches(scheduler.jobs[j].trigger, TimesOfDay[s])

\* C14: a firing of the daily job makes one send to the operator channel;
\* when that send fails the failure is logged and no exception leaves the
\* job; afterwards, as long as main is polling, the scheduler is running
\* with the job in it, and once the clock has reached the job's time on the
\* next day with the scheduler still running, the job has fired on that day
\* too.
C14_FailedPostDoesNotStopTheJob ==
    /\ last.handler = "send_daily_motivation" =>
           /\ Len(last.calls) = 1
           /\ last.calls[1].chat_id = ADMIN_CHAT_ID_INT
           /\ ~last.raised
           /\ ~last.calls[1].ok => last.logged
    /\ \A i \in 1..Len(fired) :
           ~fired[i].ok =>
               /\ pc.at = "polling" =>
                      /\ scheduler.state = "running"
                      /\ \E j \in 1..Len(scheduler.jobs) : scheduler.jobs[j].id = fired[i].id
               /\ (scheduler.state = "running" /\ DuePassed(fired[i].day + 1)) =>
                      \E k \in (i + 1)..Len(fired) : fired[k].day = fired[i].day + 1

\* C14 witness: the post failed on one day and the job fired again on the
\* next.
C14_Witness ==
    /\ Len(fired) >= 2
    /\ ~fired[1].ok
    /\ fired[2].day = fired[1].day + 1
    /\ last.handler = "send_daily_motivation"

\* C15: with the token or the operator chat id unset or empty, the module
\* never gets past its configuration: no transport client is created, no
\* scheduler exists, no handler and no job runs and nothing is sent.
C15_MissingConfigurationIsFatal ==
    [][ (Falsy(environ.BOT_TOKEN) \/ Falsy(environ.ADMIN_CHAT_ID)) =>
            /\ pc'.at \in {"import", "fatal"}
            /\ bot' = "none"
            /\ scheduler'.state = "none"
            /\ last'.handler = "none"
            /\ fired' = <<>>
            /\ next_id' = 1
      ]_vars

\* C15 witness: the token is not set, the operator chat id is; start-up
\* has failed and a day has passed.
C15_Witness ==
    /\ environ.BOT_TOKEN = {}
    /\ environ.ADMIN_CHAT_ID = {ToStr(ADMIN_CHAT_ID_INT)}
    /\ pc.at = "fatal"
    /\ clock.day >= 1

C16_OneHandlerAtATime ==
    Cardinality({t \in tasks : t.handler # "send_daily_motivation"}) <= 1

\* C21 as claimed: every firing of the daily job happens at 09:00 local
\* time of the scheduler's timezone, Europe/Moscow.
C21_FiresAtNine ==
    \A i \in 1..Len(fired) : fired[i].time = [hour |-> 9, minute |-> 0]

\* C22 as claimed: an operator reply (not the /start command) to a message
\* id that is a key of the reply-prompt table makes a send to the user id
\* stored under that key, whatever that id is, 0 included.
C22_StoredEntryIsNeverAMiss ==
    ( /\ last.handler = "handle_admin_reply"
      /\ last.ev.reply_to \in DOMAIN reply_message_map )
    => /\ last.calls # <<>>
       /\ last.calls[1].chat_id = reply_message_map[last.ev.reply_to]

\* C24 as claimed: the user-message handler sends the retry-later notice
\* only when the forward to the operator channel failed; a message that was
\* forwarded and recorded never has the notice sent to its author.
C24_RetryLaterOnlyAfterFailedForward ==
    last.handler = "handle_message" =>
        \A i \in 1..Len(last.calls) :
            last.calls[i].content = RETRY_LATER =>
                /\ ~last.calls[1].ok
                /\ \A k \in DOMAIN user_message_map : k # last.calls[1].message_id

\* The calls of the latest run that delivered content c.
Delivered(c) ==
    {i \in 1..Len(last.calls) : last.calls[i].content = c /\ last.calls[i].ok}

\* C25: for one user message the receipt confirmation and the retry-later
\* notice are each delivered at most once, to the author's chat, and never
\* both; the receipt confirmation is delivered only after the forward to
\* the operator channel was delivered and its entry stored for the author.
\* No other handler sends either text. (A call that raises has delivered
\* nothing.)
C25_ReceiptOrRetryNotBoth ==
    /\ last.handler # "handle_message" =>
           \A i \in 1..Len(last.calls) : last.calls[i].content \notin {RECEIVED, RETRY_LATER}
    /\ last.handler = "handle_message" =>
           /\ Cardinality(Delivered(RECEIVED)) <= 1
           /\ Cardinality(Delivered(RETRY_LATER)) <= 1
           /\ Delivered(RECEIVED) = {} \/ Delivered(RETRY_LATER) = {}
           /\ \A i \in Delivered(RECEIVED) \cup Delivered(RETRY_LATER) :
                  last.calls[i].chat_id = last.ev.chat
           /\ Delivered(RECEIVED) # {} =>
                  \E j \in 1..Len(last.calls) :
                      /\ j < CHOOSE i \in Delivered(RECEIVED) : TRUE
                      /\ last.calls[j].chat_id = ADMIN_CHAT_ID_INT
                      /\ last.calls[j].markup = create_reply_button(last.ev.from_user)
                      /\ last.calls[j].ok
                      /\ last.calls[j].message_id \in DOMAIN user_message_map
                      /\ user_message_map[last.calls[j].message_id] = last.ev.from_user

\* C25 witness: a user's message was forwarded and recorded, the receipt
\* confirmation failed and the retry-later notice reached the user, who so
\* got the one of the two.
C25_Witness ==
    /\ last.handler = "handle_message"
    /\ last.ev.from_user \in Users
    /\ last.calls[1].ok
    /\ last.calls[1].message_id \in DOMAIN user_message_map
    /\ Delivered(RECEIVED) = {}
    /\ Delivered(RETRY_LATER) = {3}

\* C23: an entry of the reply-prompt table is not consumed by use. Once the
\* operator has replied to a tracked prompt the entry is still in the table,
\* every reply to that prompt found it, and every one of them was sent to
\* the user stored in it, the one whose control was pressed to make the
\* prompt, whatever prompts were made in between. (An entry whose stored id
\* is 0 is never relayed at all: C22.)
C23_PromptEntryServesEveryReply ==
    \A p \in DOMAIN replies :
        (\E o \in replies[p].seen : o.tracked) =>
            /\ p \in DOMAIN reply_message_map
            /\ \A o \in replies[p].seen :
                   /\ o.tracked
                   /\ reply_message_map[p] # 0 =>
                          /\ o.sent
                          /\ o.to = reply_message_map[p]
                          /\ admin_chat[p].pressed # 0 =>
                                 o.to = admin_chat[admin_chat[p].pressed].from_user

\* C23 witness: the operator replied to the prompt made for one user, then
\* a prompt for the other user was made, then the operator replied to the
\* first prompt again; the replies went the same way, to the first user.
C23_Witness ==
    \E p \in DOMAIN replies :
        /\ \E U \in Users : replies[p].seen = {[tracked |-> TRUE, sent |-> TRUE, to |-> U]}
        /\ \E q \in DOMAIN reply_message_map :
               /\ reply_message_map[q] \in Users \ {reply_message_map[p]}
               /\ replies[p].first <= q
               /\ q < replies[p].latest

\* C26: a correlation entry is written in the step in which the send that
\* produced its key returns, also with handlers running as tasks that
\* interleave at their awaits. So in every state, whatever tasks are
\* suspended, every message whose send with a Reply control has returned is
\* a key of the forwarded-message table for its user, every prompt whose
\* send has returned is a key of the reply-prompt table for the user of the
\* pressed control, and the operator-reply handler, given a reply to such a
\* prompt now, makes a send to that user.
C26_StoredWhenTheSendReturns ==
    \A k \in DOMAIN admin_chat :
        /\ admin_chat[k].markup # NoMarkup =>
               /\ k \in DOMAIN user_message_map
               /\ user_message_map[k] = admin_chat[k].from_user
        /\ admin_chat[k].pressed # 0 =>
               /\ k \in DOMAIN reply_message_map
               /\ reply_message_map[k] = admin_chat[admin_chat[k].pressed].from_user
               /\ \A m \in {Event("message", ADMIN_CHAT_ID_INT, ADMIN_CHAT_ID_INT, c, k, <<>>, 0) :
                              c \in Contents} :
                      Route(m) = "handle_admin_reply" =>
                          \A r \in {handle_admin_reply(m, [i \in 1..3 |-> TRUE], user_message_map,
                                                       reply_message_map, next_id)} :
                              /\ r.calls # <<>>
                              /\ r.calls[1].chat_id = admin_chat[admin_chat[k].pressed].from_user

\* C26 witness: the task of a press is still suspended in its
\* acknowledgment, its prompt is posted and stored, and the operator's
\* reply to that prompt is being handled by a second task, suspended in its
\* send to the user.
C26_Witness ==
    \E t \in tasks, u \in tasks :
        /\ t.handler = "handle_reply_button"
        /\ t.done = <<TRUE>>
        /\ u.handler = "handle_admin_reply"
        /\ u.done = <<>>
        /\ u.ev.reply_to \in DOMAIN reply_message_map
        /\ admin_chat[u.ev.reply_to].pressed = t.ev.message
        /\ reply_message_map[u.ev.reply_to] \in Users

====
